---- MODULE Spec2Model ----
(***************************************************************************)
(* State-machine model of src/interfaces.py: DataInterfaceManager (the     *)
(* platform -> data interface registry), DataInterface.get_word_list and   *)
(* the fetch routines of RedditInterface and TwitterInterface.             *)
(*                                                                         *)
(* Python strings that the code transforms or tokenises (platform names,   *)
(* item texts) are sequences of one-character strings; strings the code    *)
(* only compares (source types, sort names) are TLA+ strings.  The praw    *)
(* and tweepy clients are a deterministic stub provider that honours the   *)
(* limit it is given and logs every network call made on it.               *)
(***************************************************************************)
EXTENDS Integers, Sequences, FiniteSets

VARIABLES pc, api_key_dict, exclude_list, interfaces, provider, last, memo

vars == <<pc, api_key_dict, exclude_list, interfaces, provider, last, memo>>

(* ------------------------------ bounds --------------------------------- *)

MaxCreds == 2

MaxItems == 2

MaxStream == 2

(* --------------------------- generic helpers --------------------------- *)

Range(s) == {s[i] : i \in 1..Len(s)}

RECURSIVE Flatten(_)
Flatten(ss) == IF ss = <<>> THEN <<>> ELSE Head(ss) \o Flatten(Tail(ss))

Take(s, n) == SubSeq(s, 1, IF n < Len(s) THEN n ELSE Len(s))

Min(a, b) == IF a < b THEN a ELSE b

(* The Python value None, where a string-valued field may hold it. *)
None == "<None>"

(* ------------------------ str.capitalize (line 35) ---------------------- *)

Lowers == <<"a","b","c","d","e","f","g","h","i","j","k","l","m",
            "n","o","p","q","r","s","t","u","v","w","x","y","z">>

Uppers == <<"A","B","C","D","E","F","G","H","I","J","K","L","M",
            "N","O","P","Q","R","S","T","U","V","W","X","Y","Z">>

Upper(c) == IF \E i \in 1..26 : Lowers[i] = c
            THEN Uppers[CHOOSE i \in 1..26 : Lowers[i] = c] ELSE c

Lower(c) == IF \E i \in 1..26 : Uppers[i] = c
            THEN Lowers[CHOOSE i \in 1..26 : Uppers[i] = c] ELSE c

(* First character upper-cased, every other character lower-cased. *)
capitalize(s) == [i \in 1..Len(s) |-> IF i = 1 THEN Upper(s[i]) ELSE Lower(s[i])]

(* --------------------------- names in the module ------------------------ *)

reddit == <<"r","e","d","d","i","t">>

twitter == <<"t","w","i","t","t","e","r">>

REDDIT == <<"R","E","D","D","I","T">>

data == <<"d","a","t","a">>

alpha == <<"a","l","p","h","a">>

InterfaceSuffix == <<"I","n","t","e","r","f","a","c","e">>

RedditInterfaceName == <<"R","e","d","d","i","t">> \o InterfaceSuffix

TwitterInterfaceName == <<"T","w","i","t","t","e","r">> \o InterfaceSuffix

DataInterfaceName == <<"D","a","t","a">> \o InterfaceSuffix

(* The names bound in the module's global namespace. *)
globals == { RedditInterfaceName, TwitterInterfaceName, DataInterfaceName,
             DataInterfaceName \o <<"M","a","n","a","g","e","r">>,
             <<"W","o","r","d","L","i","s","t","R","e","q","u","e","s","t","C","o","n","f","i","g">>,
             <<"N","a","m","e","d","T","u","p","l","e">>, <<"T","u","p","l","e">>,
             <<"d","a","t","e","t","i","m","e">>, <<"p","r","a","w">>,
             <<"t","w","e","e","p","y">> }

expected_class_name(platform) == capitalize(platform) \o InterfaceSuffix

(* ------------------------- interface construction ----------------------- *)

(* A credential bundle is opaque: "ok" is accepted by the provider's client *)
(* constructor, "bad" makes that constructor raise.                         *)
Bundles == {"ok", "bad"}

NoInterface == [cls |-> "", platform |-> <<>>, valid_source_types |-> <<>>,
                valid_sort_types |-> <<>>, api |-> "", api_keys |-> ""]

Constructed(obj) == [kind |-> "object", exc |-> "", obj |-> obj]

Raised(exc) == [kind |-> "raise", exc |-> exc, obj |-> NoInterface]

(* DataInterface.init_api_client: the api class called on the api keys. *)
init_api_client(api_class, api_keys) ==
    IF api_keys = "ok" THEN [kind |-> "object", exc |-> "", api |-> api_class]
    ELSE [kind |-> "raise", exc |-> "ProviderError", api |-> ""]

(* TwitterInterface.init_api_client: tweepy.API over an AppAuthHandler. *)
init_api_client_twitter(api_keys) ==
    IF api_keys = "ok" THEN [kind |-> "object", exc |-> "", api |-> "tweepy.API"]
    ELSE [kind |-> "raise", exc |-> "ProviderError", api |-> ""]

(* DataInterface.__init__ with the client handle already attempted. *)
DataInterface_init(cls, client, api_keys, platform, valid_source_types, valid_sort_types) ==
    IF client.kind = "raise" THEN Raised(client.exc)
    ELSE Constructed([cls |-> cls, platform |-> platform,
                      valid_source_types |-> valid_source_types,
                      valid_sort_types |-> valid_sort_types,
                      api |-> client.api, api_keys |-> api_keys])

RedditInterface_init(api_keys) ==
    DataInterface_init("RedditInterface", init_api_client("praw.Reddit", api_keys),
                       api_keys, reddit,
                       <<"subreddit", "user", "post">>,
                       <<"top", "new", "controversial">>)

TwitterInterface_init(api_keys) ==
    DataInterface_init("TwitterInterface", init_api_client_twitter(api_keys),
                       api_keys, twitter, <<"user", "hashtag">>, <<>>)

(* globals()[expected_class_name](api_keys).  DataInterface itself takes    *)
(* five required arguments, so calling it with one raises TypeError.        *)
interface_class(class_name, api_keys) ==
    IF class_name = RedditInterfaceName THEN RedditInterface_init(api_keys)
    ELSE IF class_name = TwitterInterfaceName THEN TwitterInterface_init(api_keys)
    ELSE Raised("TypeError")

(* ------------------------------ autopopulate ---------------------------- *)

(* exclude_list is None or a collection of platform names:                  *)
(* [none |-> TRUE, items |-> {}] is None.  None and the empty collection    *)
(* are falsy.                                                               *)
NoneExclude == [none |-> TRUE, items |-> {}]

Truthy(xl) == ~xl.none /\ xl.items # {}

skip_platform(platform, xl) ==
    expected_class_name(platform) \notin globals
      \/ (Truthy(xl) /\ platform \notin xl.items)

(* The loop of autopopulate over api_key_dict.items() from entry i on, with *)
(* the interfaces built so far; an exception raised by a constructor leaves *)
(* the loop and propagates.                                                 *)
RECURSIVE autopopulate_from(_, _, _, _)
autopopulate_from(akd, xl, i, built) ==
    IF i > Len(akd) THEN [kind |-> "return", exc |-> "", interfaces |-> built]
    ELSE LET platform == akd[i][1]
             api_keys == akd[i][2]
         IN IF skip_platform(platform, xl)
            THEN autopopulate_from(akd, xl, i + 1, built)
            ELSE LET r == interface_class(expected_class_name(platform), api_keys)
                 IN IF r.kind = "raise"
                    THEN [kind |-> "raise", exc |-> r.exc, interfaces |-> built]
                    ELSE autopopulate_from(akd, xl, i + 1,
                             [k \in DOMAIN built \cup {platform} |->
                                 IF k = platform THEN r.obj ELSE built[k]])

EmptyDict == [k \in {} |-> NoInterface]

(* autopopulate writes into self.interfaces as it stands (ifs): entries of  *)
(* other keys stay, entries of constructed platforms are replaced, and what *)
(* was written before a constructor raised stays written.                   *)
autopopulate(ifs, akd, xl) == autopopulate_from(akd, xl, 1, ifs)

(* ------------------------------ str.split ------------------------------- *)

(* The characters for which str.isspace() holds.  A character TLA+ has no   *)
(* escape for is written as its Python escape (the string "\\x0b" stands    *)
(* for the one character U+000B).                                           *)
Whitespace ==
    { "\t", "\n", "\\x0b", "\f", "\r", "\\x1c", "\\x1d", "\\x1e", "\\x1f", " ",
      "\\x85", "\\xa0", "\\u1680",
      "\\u2000", "\\u2001", "\\u2002", "\\u2003", "\\u2004", "\\u2005",
      "\\u2006", "\\u2007", "\\u2008", "\\u2009", "\\u200a",
      "\\u2028", "\\u2029", "\\u202f", "\\u205f", "\\u3000" }

(* text.split() with no separator: maximal runs of non-whitespace, scanned  *)
(* left to right; cur is the token being read, out the tokens read.         *)
RECURSIVE split_from(_, _, _, _)
split_from(s, i, cur, out) ==
    IF i > Len(s) THEN (IF cur = <<>> THEN out ELSE Append(out, cur))
    ELSE IF s[i] \in Whitespace
         THEN split_from(s, i + 1, <<>>, IF cur = <<>> THEN out ELSE Append(out, cur))
         ELSE split_from(s, i + 1, Append(cur, s[i]), out)

split(s) == split_from(s, 1, <<>>, <<>>)

(* ------------------------------ stub provider --------------------------- *)

(* provider.stream: the item texts a listing, timeline or search yields, in *)
(* order; provider.thread: the comment forest of a submission, a sequence   *)
(* of top-level comments [body, replies], replies a sequence of bodies.     *)

(* The listing methods a subreddit and a redditor's comments expose. *)
ListingNames == {"controversial", "hot", "new", "top"}

(* subreddit.<sort>(limit=n), user.comments.<sort>(limit=n): a lazy listing *)
(* that yields at most n items and fetches nothing when n is 0.             *)
listing(stream, limit) ==
    [items |-> Take(stream, limit),
     calls |-> IF limit = 0 THEN <<>> ELSE <<"listing">>]

(* api.user_timeline(count=n): one request, at most n tweets. *)
user_timeline(stream, count) ==
    [items |-> Take(stream, count), calls |-> <<"user_timeline">>]

(* tweepy.Cursor(api.search, ...).items(n): pages are requested only while  *)
(* items are still wanted.                                                  *)
cursor_items(stream, n) ==
    [items |-> Take(stream, n),
     calls |-> IF n = 0 THEN <<>> ELSE <<"search">>]

(* submission.comments with comment_limit = n: the first n comments of the  *)
(* thread in depth-first order are loaded, the others are left behind       *)
(* "load more" placeholders.  loaded[i].more says replies of i are missing. *)
RECURSIVE load_from(_, _, _, _)
load_from(thread, i, budget, loaded) ==
    IF i > Len(thread) \/ budget = 0 THEN loaded
    ELSE LET kept == Take(thread[i].replies, budget - 1)
         IN load_from(thread, i + 1, budget - 1 - Len(kept),
                      Append(loaded, [body |-> thread[i].body, replies |-> kept,
                                      more |-> Len(kept) < Len(thread[i].replies)]))

comments_of(thread, comment_limit) ==
    LET loaded == load_from(thread, 1, comment_limit, <<>>)
    IN [top |-> loaded, more |-> Len(loaded) < Len(thread),
        calls |-> <<"submission">>]

Placeholders(forest) ==
    Cardinality({i \in 1..Len(forest.top) : forest.top[i].more})
      + (IF forest.more THEN 1 ELSE 0)

(* comments.replace_more(limit=None): every placeholder is replaced by the  *)
(* comments it stands for, one request per placeholder.                     *)
replace_more_all(thread, forest) ==
    [top |-> [i \in 1..Len(thread) |->
                 [body |-> thread[i].body, replies |-> thread[i].replies,
                  more |-> FALSE]],
     more |-> FALSE,
     calls |-> [j \in 1..Placeholders(forest) |-> "morechildren"]]

(* comments.replace_more(limit=0): every placeholder is removed, nothing is *)
(* requested.                                                               *)
replace_more_none(forest) ==
    [top |-> [i \in 1..Len(forest.top) |->
                 [body |-> forest.top[i].body, replies |-> forest.top[i].replies,
                  more |-> FALSE]],
     more |-> FALSE, calls |-> <<>>]

(* comments.list(): the forest flattened breadth first. *)
comments_list(forest) ==
    [i \in 1..Len(forest.top) |-> forest.top[i].body]
      \o Flatten([i \in 1..Len(forest.top) |-> forest.top[i].replies])

(* iterating the forest itself: its top-level comments. *)
comments_iter(forest) == [i \in 1..Len(forest.top) |-> forest.top[i].body]

(* ------------------------------ fetch routines -------------------------- *)

(* What a call produced: kind "words" (a list of words was returned),       *)
(* "None" (None was returned) or "raise" (exception exc propagated); items  *)
(* are the text fields of the provider items the routine iterated over, in  *)
(* order; calls are the network calls made on the client, in order.         *)
ReturnWords(value, items, calls) ==
    [kind |-> "words", exc |-> "", value |-> value, items |-> items, calls |-> calls]

ReturnNone ==
    [kind |-> "None", exc |-> "", value |-> <<>>, items |-> <<>>, calls |-> <<>>]

Raise(exc, calls) ==
    [kind |-> "raise", exc |-> exc, value |-> <<>>, items |-> <<>>, calls |-> calls]

(* Variant: a word already collected is not collected again. *)
RECURSIVE words_extend_dedup(_, _)
words_extend_dedup(texts, words) ==
    IF texts = <<>> THEN words
    ELSE LET fresh == SelectSeq(split(Head(texts)), LAMBDA w : w \notin Range(words))
         IN words_extend_dedup(Tail(texts), words \o fresh)

(* words = []; for x in items: words.extend(x.text.split()) *)
RECURSIVE words_extend(_, _)
words_extend(texts, words) ==
    IF texts = <<>> THEN words
    ELSE words_extend(Tail(texts), words \o split(Head(texts)))

(* getattr(obj, sort) on an object whose listing methods are ListingNames. *)
getattr_listing(sort) ==
    IF sort = None THEN "TypeError"
    ELSE IF sort \notin ListingNames THEN "AttributeError"
    ELSE ""

Reddit_from_subreddit(request_config, prov) ==
    IF getattr_listing(request_config.sort) # ""
    THEN Raise(getattr_listing(request_config.sort), <<>>)
    ELSE LET submissions == listing(prov.stream, request_config.max_posts)
         IN ReturnWords(words_extend(submissions.items, <<>>),
                        submissions.items, submissions.calls)

Reddit_from_user(request_config, prov) ==
    IF getattr_listing(request_config.sort) # ""
    THEN Raise(getattr_listing(request_config.sort), <<>>)
    ELSE LET sorted_comments == listing(prov.stream, request_config.max_posts)
         IN ReturnWords(words_extend(sorted_comments.items, <<>>),
                        sorted_comments.items, sorted_comments.calls)

(* extra_args.get('top_level_only', False) *)
top_level_only(extra_args) ==
    IF "top_level_only" \in DOMAIN extra_args THEN extra_args["top_level_only"] ELSE FALSE

Reddit_from_post(request_config, prov) ==
    LET comments == comments_of(prov.thread, request_config.max_posts)
    IN IF ~top_level_only(request_config.extra_args)
       THEN LET expanded == replace_more_all(prov.thread, comments)
                flat == comments_list(expanded)
            IN ReturnWords(words_extend(flat, <<>>), flat,
                           comments.calls \o expanded.calls)
       ELSE LET pruned == replace_more_none(comments)
                tops == comments_iter(pruned)
            IN ReturnWords(words_extend(tops, <<>>), tops,
                           comments.calls \o pruned.calls)

Twitter_from_user(request_config, prov) ==
    LET user_tweets == user_timeline(prov.stream, request_config.max_posts)
    IN ReturnWords(words_extend(user_tweets.items, <<>>),
                   user_tweets.items, user_tweets.calls)

Twitter_from_hashtag(request_config, prov) ==
    LET tweets == cursor_items(prov.stream, request_config.max_posts)
    IN ReturnWords(words_extend(tweets.items, <<>>), tweets.items, tweets.calls)

(* getattr(self, f'from_{source_type}')(request_config), for a source type  *)
(* of the interface's valid_source_types.                                   *)
fetch_function(self, request_config, prov) ==
    IF self.cls = "RedditInterface"
    THEN CASE request_config.source_type = "subreddit" ->
                  Reddit_from_subreddit(request_config, prov)
           [] request_config.source_type = "user" ->
                  Reddit_from_user(request_config, prov)
           [] request_config.source_type = "post" ->
                  Reddit_from_post(request_config, prov)
           [] OTHER -> Raise("AttributeError", <<>>)
    ELSE CASE request_config.source_type = "user" ->
                  Twitter_from_user(request_config, prov)
           [] request_config.source_type = "hashtag" ->
                  Twitter_from_hashtag(request_config, prov)
           [] OTHER -> Raise("AttributeError", <<>>)

(* Variant: the request is rejected only when both the platform and the    *)
(* source type are wrong.                                                   *)
get_word_list_and(self, request_config, prov) ==
    IF request_config.platform # self.platform
         /\ request_config.source_type \notin Range(self.valid_source_types)
    THEN Raise("Exception", <<>>)
    ELSE fetch_function(self, request_config, prov)

get_word_list(self, request_config, prov) ==
    IF request_config.platform # self.platform
         \/ request_config.source_type \notin Range(self.valid_source_types)
    THEN Raise("Exception", <<>>)
    ELSE fetch_function(self, request_config, prov)

(* self.platforms is the live key view of self.interfaces. *)
platforms(ifs) == DOMAIN ifs

request_word_list(ifs, request_config, prov) ==
    IF request_config.platform \notin platforms(ifs) THEN ReturnNone
    ELSE get_word_list(ifs[request_config.platform], request_config, prov)

(* ------------------------------ input sets ------------------------------ *)

PlatformKeys == {reddit, REDDIT, twitter, data, alpha}

(* api_key_dict: the (platform, api_keys) items in insertion order, keys    *)
(* distinct.                                                                *)
CredSeqs ==
    UNION { { c \in [1..n -> PlatformKeys \X Bundles] :
                \A i, j \in 1..n : i # j => c[i][1] # c[j][1] } : n \in 0..MaxCreds }

Excludes ==
    {NoneExclude} \cup {[none |-> FALSE, items |-> S] : S \in SUBSET {reddit, twitter, alpha}}

(* The API_KEYS of config.py: keys for both implemented platforms. *)
API_KEYS == << <<reddit, "ok">>, <<twitter, "ok">> >>

Text1 == <<"b", "\r", "a">>

Text2 == <<" ", "a", "\\xa0", "\n", "a", "\t">>

Text3 == <<"\\u3000", "\\x1c">>

Texts == {Text1, Text2, Text3}

Streams == UNION { [1..n -> Texts] : n \in 0..MaxStream }

ThreadComments ==
    { [body |-> Text2, replies |-> r] : r \in {<<>>, <<Text1>>} }

Threads == UNION { [1..n -> ThreadComments] : n \in 0..MaxStream }

DefaultStream == <<Text1, Text2>>

DefaultThread == << [body |-> Text2, replies |-> <<Text1>>],
                    [body |-> Text1, replies |-> <<>>] >>

DefaultProvider == [stream |-> DefaultStream, thread |-> DefaultThread]

Providers ==
    {[stream |-> st, thread |-> DefaultThread] : st \in Streams}
      \cup {[stream |-> DefaultStream, thread |-> th] : th \in Threads}

NoExtraArgs == [k \in {} |-> FALSE]

ExtraArgs == {NoExtraArgs, [top_level_only |-> TRUE]}

RequestConfig(p, st, n, srt, ea) ==
    [platform |-> p, source_type |-> st, source_value |-> "python",
     max_posts |-> n, time |-> None, sort |-> srt, extra_args |-> ea]

SourceTypes == {"subreddit", "user", "post", "hashtag", "video"}

Sorts == {"top", "hot", "best", "", None}

Requests ==
    { RequestConfig(p, st, n, srt, ea) :
        p \in {reddit, twitter, alpha}, st \in SourceTypes, n \in 0..MaxItems,
        srt \in Sorts, ea \in ExtraArgs }

ManagerRequests ==
    { RequestConfig(p, st, 1, "top", NoExtraArgs) :
        p \in PlatformKeys, st \in {"subreddit", "hashtag"} }

(* The requests whose first outcome is remembered for comparison. *)
TrackedRequests ==
    { r \in Requests : r.sort = "top" /\ r.max_posts = MaxItems
                         /\ r.platform \in {reddit, twitter} }

RepeatProviders ==
    { DefaultProvider,
      [stream |-> <<Text2, Text3, Text1>>,
       thread |-> << [body |-> Text1, replies |-> <<Text2, Text1>>] >>] }

(* ------------------------------ state machine --------------------------- *)

NoRequest == RequestConfig(<<>>, "", 0, None, NoExtraArgs)

NoCall == [op |-> "", req |-> NoRequest, target |-> <<>>, out |-> ReturnNone]

(* What the caller keeps of a call: the call, its outcome, and the          *)
(* interfaces dict the call was made on.                                    *)
Kept(call, ifs) ==
    [op |-> call.op, req |-> call.req, target |-> call.target, out |-> call.out,
     ifs |-> ifs]

NoMemo == Kept(NoCall, EmptyDict)

Call(op, req, target, out) == [op |-> op, req |-> req, target |-> target, out |-> out]

(* Before DataInterfaceManager(api_key_dict, excluded_from_autopopulate). *)
Init ==
    /\ pc = "new"
    /\ api_key_dict \in CredSeqs
    /\ exclude_list \in Excludes
    /\ interfaces = EmptyDict
    /\ provider = DefaultProvider
    /\ last = NoCall
    /\ memo = NoMemo

(* DataInterfaceManager.__init__: either the manager exists with its        *)
(* interfaces populated, or the exception of a constructor propagated and   *)
(* there is no manager.                                                     *)
Construct ==
    /\ pc = "new"
    /\ LET r == autopopulate(EmptyDict, api_key_dict, exclude_list)
       IN IF r.kind = "raise"
          THEN /\ pc' = "raised"
               /\ interfaces' = EmptyDict
               /\ last' = Call("__init__", NoRequest, <<>>, Raise(r.exc, <<>>))
          ELSE /\ pc' = "ready"
               /\ interfaces' = r.interfaces
               /\ last' = Call("__init__", NoRequest, <<>>, ReturnNone)
    /\ UNCHANGED <<api_key_dict, exclude_list, provider, memo>>

(* dim.autopopulate(exclude_list) called on a built manager: the public     *)
(* method runs again over api_key_dict with the exclude list given now.  A  *)
(* constructor's exception propagates to the caller and the manager stays   *)
(* usable with what was written before it.  Only self.interfaces is         *)
(* written.                                                                 *)
Autopopulate(xl) ==
    /\ pc = "ready"
    /\ LET r == autopopulate(interfaces, api_key_dict, xl)
       IN /\ interfaces' = r.interfaces
          /\ last' = Call("autopopulate", NoRequest, <<>>,
                          IF r.kind = "raise" THEN Raise(r.exc, <<>>) ELSE ReturnNone)
    /\ pc' = "ready"
    /\ UNCHANGED <<api_key_dict, exclude_list, provider, memo>>

(* Variant: the provider's listing is kept between calls and resumed, so    *)
(* the items one call consumed are gone for the next.                       *)
RequestWordList_resuming(request_config) ==
    /\ pc = "ready"
    /\ pc' = "returned"
    /\ LET out == request_word_list(interfaces, request_config, provider)
       IN /\ last' = Call("request_word_list", request_config, request_config.platform, out)
          /\ provider' = [provider EXCEPT
                            !.stream = SubSeq(provider.stream,
                                              Min(Len(out.items), Len(provider.stream)) + 1,
                                              Len(provider.stream))]
    /\ UNCHANGED <<api_key_dict, exclude_list, interfaces, memo>>

(* dim.request_word_list(request_config) *)
RequestWordList(request_config) ==
    /\ pc = "ready"
    /\ pc' = "returned"
    /\ last' = Call("request_word_list", request_config, request_config.platform,
                    request_word_list(interfaces, request_config, provider))
    /\ UNCHANGED <<api_key_dict, exclude_list, interfaces, provider, memo>>

(* dim[platform].get_word_list(request_config): the interface called        *)
(* directly.                                                                *)
GetWordList(platform, request_config) ==
    /\ pc = "ready"
    /\ platform \in DOMAIN interfaces
    /\ pc' = "returned"
    /\ last' = Call("get_word_list", request_config, platform,
                    get_word_list(interfaces[platform], request_config, provider))
    /\ UNCHANGED <<api_key_dict, exclude_list, interfaces, provider, memo>>

(* The caller has read the outcome and may call again. *)
Resume ==
    /\ pc = "returned"
    /\ pc' = "ready"
    /\ last' = NoCall
    /\ UNCHANGED <<api_key_dict, exclude_list, interfaces, provider, memo>>

(* The caller keeps the outcome of one call to compare later ones with,     *)
(* together with a copy of dim.interfaces as it was at that call.           *)
Remember ==
    /\ pc = "returned"
    /\ memo = NoMemo
    /\ last.req \in TrackedRequests
    /\ memo' = Kept(last, interfaces)
    /\ pc' = "ready"
    /\ last' = NoCall
    /\ UNCHANGED <<api_key_dict, exclude_list, interfaces, provider>>

Next ==
    \/ Construct
    \/ \E xl \in Excludes : Autopopulate(xl)
    \/ \E request_config \in ManagerRequests : RequestWordList(request_config)
    \/ Resume

Spec == Init /\ [][Next]_vars

(* Managers over API_KEYS holding both interfaces or one of them. *)
RepeatExcludes ==
    {NoneExclude, [none |-> FALSE, items |-> {reddit}], [none |-> FALSE, items |-> {twitter}]}

(* A manager built from API_KEYS with nothing excluded, as __main__ does,   *)
(* over any stub provider.                                                  *)
InitFetch ==
    /\ pc = "ready"
    /\ api_key_dict = API_KEYS
    /\ exclude_list = NoneExclude
    /\ interfaces = autopopulate(EmptyDict, API_KEYS, NoneExclude).interfaces
    /\ provider \in Providers
    /\ last = NoCall
    /\ memo = NoMemo

NextFetch ==
    \/ \E request_config \in Requests : RequestWordList(request_config)
    \/ \E platform \in PlatformKeys, request_config \in Requests :
          GetWordList(platform, request_config)
    \/ \E xl \in RepeatExcludes : Autopopulate(xl)
    \/ Resume

SpecFetch == InitFetch /\ [][NextFetch]_vars

InitRepeat ==
    /\ pc = "ready"
    /\ api_key_dict = API_KEYS
    /\ exclude_list \in RepeatExcludes
    /\ interfaces = autopopulate(EmptyDict, API_KEYS, exclude_list).interfaces
    /\ provider \in RepeatProviders
    /\ last = NoCall
    /\ memo = NoMemo

NextRepeat ==
    \/ \E request_config \in Requests : RequestWordList(request_config)
    \/ \E xl \in RepeatExcludes : Autopopulate(xl)
    \/ Resume
    \/ Remember

SpecRepeat == InitRepeat /\ [][NextRepeat]_vars

(* ============================== properties ============================== *)

Built == pc \in {"ready", "returned"}

Returned == pc = "returned"

CredKeys == {api_key_dict[i][1] : i \in 1..Len(api_key_dict)}

(* The interface classes (subclasses of DataInterface) the module defines. *)
InterfaceClasses == {RedditInterfaceName, TwitterInterfaceName}

Registered(p) == expected_class_name(p) \in InterfaceClasses

Excluded(p) == ~exclude_list.none /\ p \in exclude_list.items

(* An interface was reached by the last call, directly or through the       *)
(* manager.                                                                 *)
OnInterface ==
    /\ Returned
    /\ last.op \in {"request_word_list", "get_word_list"}
    /\ last.target \in DOMAIN interfaces

Supported == last.req.source_type \in Range(interfaces[last.target].valid_source_types)

(* C1: after initialization the interfaces dict holds platform p exactly    *)
(* when p is a key of the credentials, an interface class is registered for *)
(* p, and p is not in the exclude list.                                     *)
C1_PopulatedIffRegisteredAndNotExcluded ==
    (Built /\ last.op = "__init__") => DOMAIN interfaces = {p \in CredKeys : Registered(p) /\ ~Excluded(p)}

(* C2: a request for a platform with no interface ends in an                *)
(* UnknownPlatformError; it returns no value, None included, and calls no   *)
(* interface.                                                               *)
C2_UnknownPlatformIsAnError ==
    (Returned /\ last.op = "request_word_list"
       /\ last.req.platform \notin DOMAIN interfaces)
    => (last.out.kind = "raise" /\ last.out.exc = "UnknownPlatformError"
          /\ last.out.calls = <<>>)

(* C3: a request whose source type the interface does not support fails     *)
(* with the invalid-request error, and no call was made on the provider     *)
(* client.                                                                  *)
C3_UnsupportedSourceTypeFailsBeforeAnyCall ==
    (OnInterface /\ ~Supported)
    => (last.out.kind = "raise" /\ last.out.exc = "Exception"
          /\ last.out.calls = <<>>)

C3_Witness ==
    /\ OnInterface
    /\ last.op = "get_word_list"
    /\ last.target = twitter
    /\ last.req.platform = twitter
    /\ last.req.source_type = "subreddit"
    /\ last.out.kind = "raise"

(* C4: on an interface that declares sort modes, a supported source type    *)
(* with a sort mode that is present, non-empty and not declared fails       *)
(* before any provider call; on an interface that declares none, the sort   *)
(* mode is ignored and the fetch proceeds.                                  *)
C4_UndeclaredSortModeIsRejected ==
    (OnInterface /\ Supported /\ last.req.platform = interfaces[last.target].platform)
    => IF interfaces[last.target].valid_sort_types # <<>>
       THEN (last.req.sort \notin {None, ""}
               /\ last.req.sort \notin Range(interfaces[last.target].valid_sort_types))
            => (last.out.kind = "raise" /\ last.out.calls = <<>>)
       ELSE last.out.kind = "words"

(* The items the provider has for the request of the last call. *)
Available ==
    IF last.req.source_type = "post"
    THEN IF top_level_only(last.req.extra_args)
         THEN Len(provider.thread)
         ELSE Len(provider.thread)
                + Len(Flatten([i \in 1..Len(provider.thread) |-> provider.thread[i].replies]))
    ELSE Len(provider.stream)

(* C5: a fetch consumes at most max_posts raw items, and exactly max_posts  *)
(* when the provider has that many.                                         *)
C5_AtMostMaxItemsConsumed ==
    (OnInterface /\ last.out.kind = "words")
    => /\ Len(last.out.items) <= last.req.max_posts
       /\ (Available >= last.req.max_posts => Len(last.out.items) = last.req.max_posts)

(* The provider calls that request items ("submission" only resolves the    *)
(* thread handle).                                                          *)
ItemCalls == {"listing", "user_timeline", "search", "morechildren"}

(* C6: a fetch with max_posts = 0 returns no words and makes no provider    *)
(* call that requests items.                                                *)
C6_ZeroMaxItemsFetchesNothing ==
    (OnInterface /\ last.out.kind = "words" /\ last.req.max_posts = 0)
    => (last.out.value = <<>> /\ Range(last.out.calls) \cap ItemCalls = {})

(* What the claim calls whitespace, by Unicode class: the ASCII controls    *)
(* and space that separate, NEL and the no-break space, the space           *)
(* separators, and the line and paragraph separators.                       *)
AsciiSpace == {"\t", "\n", "\\x0b", "\f", "\r", "\\x1c", "\\x1d", "\\x1e", "\\x1f", " "}

Latin1Space == {"\\x85", "\\xa0"}

UnicodeSpace ==
    {"\\u1680", "\\u202f", "\\u205f", "\\u3000", "\\u2028", "\\u2029"}
      \cup {<<"\\u2000", "\\u2001", "\\u2002", "\\u2003", "\\u2004", "\\u2005",
               "\\u2006", "\\u2007", "\\u2008", "\\u2009", "\\u200a">>[i] : i \in 1..11}

IsSpace(c) == c \in AsciiSpace \cup Latin1Space \cup UnicodeSpace

(* The whitespace-delimited tokens of a text, read off the text: the k-th   *)
(* token runs from the k-th position that starts a run of non-whitespace to *)
(* the k-th position that ends one.                                         *)
Starts(s) == {i \in 1..Len(s) : ~IsSpace(s[i]) /\ (i = 1 \/ IsSpace(s[i - 1]))}

Ends(s) == {i \in 1..Len(s) : ~IsSpace(s[i]) /\ (i = Len(s) \/ IsSpace(s[i + 1]))}

Kth(S, k) == CHOOSE x \in S : Cardinality({y \in S : y <= x}) = k

TokensOf(s) == [k \in 1..Cardinality(Starts(s)) |-> SubSeq(s, Kth(Starts(s), k), Kth(Ends(s), k))]

(* C7: the returned words are the tokens of the delivered items' texts,     *)
(* concatenated in item order: nothing reordered, dropped, deduplicated or  *)
(* transformed.                                                             *)
C7_WordsAreTokensInArrivalOrder ==
    (OnInterface /\ last.out.kind = "words")
    => last.out.value = Flatten([i \in 1..Len(last.out.items) |-> TokensOf(last.out.items[i])])

C7_Witness ==
    /\ OnInterface
    /\ last.out.kind = "words"
    /\ last.out.items = <<Text2, Text1>>
    /\ last.out.value = << <<"a">>, <<"a">>, <<"b">>, <<"a">> >>

(* C8: every key of the interfaces dict is the platform name of the         *)
(* interface stored under it, so a request routed by key is never rejected  *)
(* by its interface for naming another platform.                            *)
C8_KeyIsPlatformName ==
    /\ \A k \in DOMAIN interfaces : interfaces[k].platform = k
    /\ (OnInterface /\ last.op = "request_word_list" /\ Supported)
         => ~(last.out.kind = "raise" /\ last.out.exc = "Exception")

(* The code constructs the interface of entry i from a bundle the provider  *)
(* rejects, and the constructor raises.                                     *)
ConstructionFails(i) ==
    /\ Registered(api_key_dict[i][1])
    /\ ~skip_platform(api_key_dict[i][1], exclude_list)
    /\ api_key_dict[i][2] = "bad"
    /\ interface_class(expected_class_name(api_key_dict[i][1]), api_key_dict[i][2]).kind = "raise"

(* C9: when the constructor of one platform's interface fails,              *)
(* initialization still completes and every other platform whose interface  *)
(* the code constructs is in the dict.                                      *)
C9_FailedConstructionOmitsOnlyThatPlatform ==
    (pc # "new" /\ last.op = "__init__"
       /\ \E i \in 1..Len(api_key_dict) : ConstructionFails(i))
    => /\ Built
       /\ \A j \in 1..Len(api_key_dict) :
            (~skip_platform(api_key_dict[j][1], exclude_list) /\ ~ConstructionFails(j))
              => api_key_dict[j][1] \in DOMAIN interfaces

(* A request repeated against the same provider, on a manager whose        *)
(* interfaces are what they were at the kept call, has the outcome it had   *)
(* then, whatever calls (requests, or autopopulate calls that left or put   *)
(* the interfaces back as they were) ran in between.                        *)
SameOutcomeOnRepeat ==
    (Returned /\ memo # NoMemo /\ last.op = memo.op /\ last.req = memo.req
       /\ interfaces = memo.ifs)
      => last.out = memo.out

(* A step that is a call of request_word_list or get_word_list. *)
FetchStep == pc = "ready" /\ pc' = "returned"

(* C10: a dispatch or fetch persists nothing: it leaves the interfaces dict *)
(* (platform names, capability lists, client handles) and the provider as   *)
(* they were, so that across any sequence of such calls the interfaces stay *)
(* those of the kept call and a repeated request has the same outcome.      *)
C10_NothingPersistsAcrossCalls ==
    /\ []SameOutcomeOnRepeat
    /\ [][FetchStep => (interfaces' = interfaces /\ provider' = provider)]_vars

C10_Witness ==
    /\ Returned
    /\ memo # NoMemo
    /\ last.op = memo.op
    /\ last.req = memo.req
    /\ interfaces = memo.ifs
    /\ last.req.source_type = "post"
    /\ last.out.kind = "words"
    /\ Len(last.out.value) > 2

====
